---- MODULE Spec2Model ----
(***************************************************************************)
(* State-machine model of bingscraper.py: the DownloadTracker, the         *)
(* download_image threads, and the fetch_images coordinator with its       *)
(* SIGINT handler.  Text (URLs, file names, file contents) is modelled as  *)
(* sequences of one-character strings; "P" stands for the scheme and host  *)
(* of a URL ("http://h") and "hA", "hB", "hC" for the 32 hex digits of an   *)
(* MD5 digest.                                                             *)
(***************************************************************************)
EXTENDS Integers, Sequences, FiniteSets, Bags, TLC

\* ------------------------------------------------------------------ bounds

\* The largest number of results the provider has for the query: a process
\* starts one download thread per result.
MaxTasks == 2

\* The largest `threads` and `limit` a run is started with.
MaxThreads == 2
MaxLimit == 2

\* The number of processes run one after the other.
MaxRuns == 2

\* The results of the query of an interrupted run.
SignalTasks == 3

\* The largest number of digests in a tracker that is persisted and loaded.
MaxDict == 2

\* The results of the query of a run whose first page has `limit` URLs.
PageTasks == 3

\* The download threads that exist at once in a run that is followed for
\* ever.
LiveTasks == 2

\* ------------------------------------------------------------- environment

\* The URLs a results page may contain.
U1 == <<"P", "/", "a", ".", "J">>
U2 == <<"P", "/", "d", "/">>
U3 == <<"P", "/", "b", "?", "q">>
URLS == {U1, U2, U3}

\* The bodies a server may return: three images and one body that is none.
Images == {"A", "B", "C"}
Bodies == Images \cup {"X"}

\* What urlopen(...).read() may do: return a body or raise.
NetErrors == {"HTTPError", "URLError", "timeout"}

\* ------------------------------------------------------------------- text

\* The code point of a character, as Python's sorted() compares strings.
\* Digest tokens stand for hex digits and sort among the digits.
CharCode(c) ==
    CASE c = "\t" -> 9
      [] c = "\n" -> 10
      [] c = " "  -> 32
      [] c = "."  -> 46
      [] c = "/"  -> 47
      [] c = "hA" -> 48
      [] c = "hB" -> 49
      [] c = "hC" -> 50
      [] c = "?"  -> 63
      [] c = "J"  -> 74
      [] c = "P"  -> 80
      [] c = "a"  -> 97
      [] c = "b"  -> 98
      [] c = "d"  -> 100
      [] c = "j"  -> 106
      [] c = "q"  -> 113

\* str.__lt__: lexicographic order by code point.
RECURSIVE StrLess(_, _)
StrLess(s, t) ==
    IF t = <<>> THEN FALSE
    ELSE IF s = <<>> THEN TRUE
    ELSE IF CharCode(Head(s)) # CharCode(Head(t))
         THEN CharCode(Head(s)) < CharCode(Head(t))
    ELSE StrLess(Tail(s), Tail(t))

\* sorted(set_of_strings)
RECURSIVE sorted(_)
sorted(S) ==
    IF S = {} THEN <<>>
    ELSE LET m == CHOOSE x \in S : \A y \in S \ {x} : StrLess(x, y)
         IN  <<m>> \o sorted(S \ {m})

\* sep.join(list_of_strings)
RECURSIVE join(_, _)
join(sep, l) ==
    IF l = <<>> THEN <<>>
    ELSE IF Len(l) = 1 THEN l[1]
    ELSE l[1] \o sep \o join(sep, Tail(l))

Whitespace == {" ", "\t", "\n"}

RECURSIVE lstrip(_)
lstrip(s) ==
    IF s # <<>> /\ Head(s) \in Whitespace THEN lstrip(Tail(s)) ELSE s

RECURSIVE rstrip(_)
rstrip(s) ==
    IF s # <<>> /\ s[Len(s)] \in Whitespace
    THEN rstrip(SubSeq(s, 1, Len(s) - 1)) ELSE s

\* str.strip()
strip(s) == rstrip(lstrip(s))

\* The index of the first occurrence of c in s, or 0.
RECURSIVE find(_, _, _)
find(s, c, from) ==
    IF from > Len(s) THEN 0
    ELSE IF s[from] = c THEN from
    ELSE find(s, c, from + 1)

\* The index of the last occurrence of c in s, or 0.
RECURSIVE rfind(_, _, _)
rfind(s, c, from) ==
    IF from < 1 THEN 0
    ELSE IF s[from] = c THEN from
    ELSE rfind(s, c, from - 1)

\* str.split(c): the parts of s between occurrences of c.
RECURSIVE split(_, _)
split(s, c) ==
    LET k == find(s, c, 1)
    IN  IF k = 0 THEN <<s>>
        ELSE <<SubSeq(s, 1, k - 1)>> \o split(SubSeq(s, k + 1, Len(s)), c)

\* Iterating a text file: the lines, each with its line end.
RECURSIVE readlines(_)
readlines(data) ==
    LET k == find(data, "\n", 1)
    IN  IF data = <<>> THEN <<>>
        ELSE IF k = 0 THEN <<data>>
        ELSE <<SubSeq(data, 1, k)>> \o readlines(SubSeq(data, k + 1, Len(data)))

\* str.lower() on the characters of the model.
lower(s) == [k \in 1..Len(s) |-> IF s[k] = "J" THEN "j" ELSE s[k]]

\* urllib.parse.urlsplit(url).path: what follows scheme and host, up to the
\* query or fragment.
urlsplit_path(url) ==
    LET rest == IF url # <<>> /\ Head(url) = "P" THEN Tail(url) ELSE url
        q    == find(rest, "?", 1)
    IN  IF q = 0 THEN rest ELSE SubSeq(rest, 1, q - 1)

\* posixpath.basename(p): what follows the last slash.
basename(p) == SubSeq(p, rfind(p, "/", Len(p)) + 1, Len(p))

\* os.path.splitext(name): <<root, ext>>; a leading dot starts no extension.
splitext(name) ==
    LET dot == rfind(name, ".", Len(name))
    IN  IF dot > 0 /\ \E k \in 1..(dot - 1) : name[k] # "."
        THEN <<SubSeq(name, 1, dot - 1), SubSeq(name, dot, Len(name))>>
        ELSE <<name, <<>>>>

\* download_image's local `filename`.
Filename(url) == split(basename(urlsplit_path(url)), "?")[1]

\* download_image's local `ext`.
Ext(url) == splitext(Filename(url))[2]

\* A check that trusts the URL instead of sniffing the bytes.
imghdr_unchecked(image) == TRUE

\* imghdr.what(None, image): whether the bytes are those of a known format.
imghdr_what(image) == image \in Images

\* hashlib.md5(image).hexdigest()
md5_hexdigest(image) ==
    CASE image = "A" -> "hA"
      [] image = "B" -> "hB"
      [] image = "C" -> "hC"
      [] image = "X" -> "hX"

\* download_image's local `saved_filename`.
SavedFilename(md5_hash, url) == <<md5_hash>> \o lower(Ext(url))

\* ------------------------------------------------------------------ state

VARIABLES
    provider,     \* what the provider answers: [urls, count, first, least]
    threads,      \* fetch_images' parameter `threads`
    limit,        \* fetch_images' parameter `limit`
    thread_pool,  \* the BoundedSemaphore's value: the free slots
    tried_urls,   \* tracker.tried_urls
    image_md5s,   \* tracker.image_md5s: <<md5, filename>> in insertion order
    tasks,        \* the download_image threads: a bag of [url, pc, image, outcome]
    image_index,  \* fetch_images' local `image_index`
    i,            \* fetch_images' loop variable `i`; -1 while unbound
    image_urls,   \* the page being dispatched
    di,           \* how many URLs of the page have been dispatched
    cpc,          \* where fetch_images is
    hpc,          \* where interupt_handler is; "none" when it is not running
    it,           \* the dict iterator of the log() in progress: [used, pos]
    url_file,     \* tried_urls.txt: [exists, data]
    tsv_file,     \* image_md5s.tsv: [exists, data]
    dest,         \* the names of the files in the destination directory
    fetches,      \* per URL, the network fetches started by this process
    writes,       \* per md5, the image files written by this process
    at_signal,    \* what SIGINT found: [delivered, urls, md5s, cpc]
    run,          \* 1 for the first process, 2 for the next, ...
    prev,         \* the tracker the previous process ended with: [urls,
                  \* md5s], and the URLs it left in tried_urls.txt: on_file
    ret           \* what the last call of a loading method gave: [exc, value]

vars == <<provider, threads, limit, thread_pool, tried_urls, image_md5s, tasks,
          image_index, i, image_urls, di, cpc, hpc, it, url_file, tsv_file,
          dest, fetches, writes, at_signal, run, prev, ret>>

tracker_vars == <<tried_urls, image_md5s>>
main_vars    == <<image_index, i, image_urls, di, cpc, hpc, it, at_signal>>
file_vars    == <<url_file, tsv_file>>
input_vars   == <<provider, threads, limit, run, prev, ret>>

NoFile == [exists |-> FALSE, data |-> <<>>]

\* dict helpers on the insertion-ordered list of pairs.
Keys(d) == {d[k][1] : k \in 1..Len(d)}

\* The mapping a dict holds, whatever the order of insertion.
AsMap(d) == {d[k] : k \in 1..Len(d)}

NoTracker == [urls |-> {}, md5s |-> {}, on_file |-> {}]
NoCall == [exc |-> "none", value |-> {}]

\* d[key] = value: a new key goes last, a known key keeps its place.
SetItem(d, key, value) ==
    IF key \in Keys(d)
    THEN [k \in 1..Len(d) |-> IF d[k][1] = key THEN <<key, value>> ELSE d[k]]
    ELSE Append(d, <<key, value>>)

\* ---------------------------------------------------------- download_image

NewTask(url) == [url |-> url, pc |-> "start", image |-> "none", outcome |-> "none"]

Move(t, t2) == (tasks (-) SetToBag({t})) (+) SetToBag({t2})

\* A finished thread keeps only how it ended.
Done(t, outcome) ==
    [url |-> <<>>, pc |-> "done", image |-> "none", outcome |-> outcome]

\* The tasks that hold a slot of the semaphore: between acquire() and the
\* release() of the finally clause.
Holding == {"fetching", "check", "record", "write"}

NumTasks(S) ==
    LET held == {t \in BagToSet(tasks) : t.pc \in S}
        RECURSIVE Sum(_)
        Sum(T) == IF T = {} THEN 0
                  ELSE LET t == CHOOSE x \in T : TRUE
                       IN  CopiesIn(t, tasks) + Sum(T \ {t})
    IN  Sum(held)

\* A download that leaves tried_urls as it is when it starts its fetch.
AddUrlNot(urls, url) == urls

\* Line 90: tracker.tried_urls.add(url)
AddUrl(urls, url) == urls \cup {url}

\* An acquire() that never blocks.
CanAcquireAlways(pool) == TRUE

\* Semaphore.acquire() returns only while a slot is free.
CanAcquire(pool) == pool > 0

\* A release() at the end of the try body instead of the finally clause.
ReleaseAtEndOfBody(pool, raised) == IF raised THEN pool ELSE pool + 1

\* The finally clause: thread_pool.release(), whether or not the body raised.
\* A BoundedSemaphore refuses a release above its initial value.
FinallyRelease(pool, raised) == pool + 1

\* The outcome of a task that leaves through the finally clause.
Leave(t, outcome) ==
    IF thread_pool >= threads
    THEN /\ tasks' = Move(t, Done(t, "raise_ValueError"))
         /\ UNCHANGED thread_pool
    ELSE /\ tasks' = Move(t, Done(t, outcome))
         /\ thread_pool' = FinallyRelease(thread_pool,
                                          outcome \notin {"return_invalid",
                                                          "return_saved",
                                                          "return_http_error"})

\* Lines 79-85: a URL already tried returns at once; otherwise the file name
\* is derived and the thread goes on to the semaphore.
CheckTried(t) ==
    /\ t.pc = "start"
    /\ IF t.url \in tried_urls
       THEN tasks' = Move(t, Done(t, "return_tried"))
       ELSE tasks' = Move(t, [t EXCEPT !.pc = "acquire"])
    /\ UNCHANGED <<thread_pool, tracker_vars, main_vars, file_vars, dest,
                   fetches, writes, input_vars>>

\* Lines 87-93: thread_pool.acquire() returns, the URL is added to
\* tracker.tried_urls and the request is sent.
Acquire(t) ==
    /\ t.pc = "acquire"
    /\ CanAcquire(thread_pool)
    /\ thread_pool' = thread_pool - 1
    /\ tried_urls' = AddUrl(tried_urls, t.url)
    /\ fetches' = [fetches EXCEPT ![t.url] = @ + 1]
    /\ tasks' = Move(t, [t EXCEPT !.pc = "fetching"])
    /\ UNCHANGED <<image_md5s, main_vars, file_vars, dest, writes, input_vars>>

\* The images met so far: those the threads hold, those whose digest is
\* recorded and those with a file in the destination directory.
Seen ==
    {t.image : t \in {x \in BagToSet(tasks) : x.image # "none"}}
        \cup {b \in Images : md5_hexdigest(b) \in Keys(image_md5s)}
        \cup {b \in Images : \E f \in dest : f[1] = md5_hexdigest(b)}

\* The bodies the next response may hold.  Images differ only by name, so an
\* image not met before is given the first unused name.
Responses ==
    LET fresh == Images \ Seen
    IN  Seen \cup {"X"} \cup
        {b \in fresh : \A c \in fresh : CharCode(md5_hexdigest(b)) <= CharCode(md5_hexdigest(c))}

\* Lines 93-97: the body arrives; a body that is no image returns (lines
\* 94-96), an image is hashed.
ReadBody(t) ==
    /\ t.pc = "fetching"
    /\ \E body \in Responses :
          IF ~imghdr_what(body)
          THEN Leave(t, "return_invalid")
          ELSE /\ tasks' = Move(t, [t EXCEPT !.pc = "check", !.image = body])
               /\ UNCHANGED thread_pool
    /\ UNCHANGED <<tracker_vars, main_vars, file_vars, dest, fetches, writes,
                   input_vars>>

\* Lines 93, 108-112: urlopen or read raises.  An HTTPError is caught and
\* printed; a URLError is caught, but has no attribute `code`, so the handler
\* raises AttributeError; a socket timeout while reading is not caught.
FetchFails(t) ==
    /\ t.pc = "fetching"
    /\ \E err \in NetErrors :
          Leave(t, CASE err = "HTTPError" -> "return_http_error"
                     [] err = "URLError"  -> "raise_AttributeError"
                     [] err = "timeout"   -> "raise_timeout")
    /\ UNCHANGED <<tracker_vars, main_vars, file_vars, dest, fetches, writes,
                   input_vars>>

\* Lines 98-101: a known digest logs the duplicate; the message reads the
\* undefined name image_md5s, so NameError is raised.
CheckHash(t) ==
    /\ t.pc = "check"
    /\ IF md5_hexdigest(t.image) \in Keys(image_md5s)
       THEN Leave(t, "raise_NameError")
       ELSE /\ tasks' = Move(t, [t EXCEPT !.pc = "record"])
            /\ UNCHANGED thread_pool
    /\ UNCHANGED <<tracker_vars, main_vars, file_vars, dest, fetches, writes,
                   input_vars>>

\* Line 102: tracker.image_md5s[md5_hash] = filename
Record(t) ==
    /\ t.pc = "record"
    /\ image_md5s' = SetItem(image_md5s, md5_hexdigest(t.image), Filename(t.url))
    /\ tasks' = Move(t, [t EXCEPT !.pc = "write"])
    /\ UNCHANGED <<thread_pool, tried_urls, main_vars, file_vars, dest,
                   fetches, writes, input_vars>>

\* Lines 104-107: the image file is written.
WriteFile(t) ==
    /\ t.pc = "write"
    /\ dest' = dest \cup {SavedFilename(md5_hexdigest(t.image), t.url)}
    /\ writes' = [writes EXCEPT ![md5_hexdigest(t.image)] = @ + 1]
    /\ Leave(t, "return_saved")
    /\ UNCHANGED <<tracker_vars, main_vars, file_vars, fetches, input_vars>>

\* Lines 105-106: open() or write() raises OSError (no space, no permission).
WriteFails(t) ==
    /\ t.pc = "write"
    /\ Leave(t, "raise_OSError")
    /\ UNCHANGED <<tracker_vars, main_vars, file_vars, dest, fetches, writes,
                   input_vars>>

\* Lines 174-181: a thread whose target has returned or raised has ended
\* and is no more.
ThreadExit(t) ==
    /\ t.pc = "done"
    /\ tasks' = tasks (-) SetToBag({t})
    /\ UNCHANGED <<thread_pool, tracker_vars, main_vars, file_vars, dest,
                   fetches, writes, input_vars>>

thread_exit == \E t \in BagToSet(tasks) : ThreadExit(t)

\* The steps of a download in which nothing outside the process fails.
download_steps ==
    \E t \in BagToSet(tasks) :
        \/ CheckTried(t)
        \/ Acquire(t)
        \/ ReadBody(t)
        \/ CheckHash(t)
        \/ Record(t)
        \/ WriteFile(t)

\* The steps in which the network or the disk fails.
download_failures ==
    \E t \in BagToSet(tasks) :
        \/ FetchFails(t)
        \/ WriteFails(t)

\* --------------------------------------------------------- DownloadTracker

\* Line 65: "\n".join(sorted(self.tried_urls))
UrlFileData(urls) == join(<<"\n">>, sorted(urls))

\* Line 68: f"{hash}\t{file}\n"
TsvLine(entry) == <<entry[1], "\t">> \o entry[2] \o <<"\n">>

\* log() runs on the main thread, either as line 184 of fetch_images
\* (h = FALSE) or inside interupt_handler (h = TRUE), which suspends
\* fetch_images.
PcOf(h) == IF h THEN hpc ELSE cpc

SetPc(h, pc) ==
    IF h THEN hpc' = pc /\ UNCHANGED cpc
         ELSE cpc' = pc /\ UNCHANGED hpc

\* A log() that waits until every download thread has finished.
RunningAfterThreads(h) ==
    (h \/ hpc = "none") /\ \A t \in BagToSet(tasks) : t.pc = "done"

\* The handler runs as soon as the signal is delivered; fetch_images runs
\* while no handler does.  Neither waits for the download threads.
Running(h) == h \/ hpc = "none"

\* Lines 64-65: tried_urls.txt is opened for writing and written.
LogUrls(h) ==
    /\ Running(h)
    /\ PcOf(h) = "log_urls"
    /\ url_file' = [exists |-> TRUE, data |-> UrlFileData(tried_urls)]
    /\ SetPc(h, "log_open")
    /\ UNCHANGED <<thread_pool, tracker_vars, tasks, image_index, i,
                   image_urls, di, it, at_signal, tsv_file, dest, fetches,
                   writes, input_vars>>

\* Lines 66-67: image_md5s.tsv is opened for writing, which empties it.
\* The dict iterator is created by the for statement and notes the size of
\* the dict (used = -1 until then).
LogOpen(h) ==
    /\ Running(h)
    /\ PcOf(h) = "log_open"
    /\ tsv_file' = [exists |-> TRUE, data |-> <<>>]
    /\ it' = [used |-> -1, pos |-> 0]
    /\ SetPc(h, "log_iter")
    /\ UNCHANGED <<thread_pool, tracker_vars, tasks, image_index, i,
                   image_urls, di, at_signal, url_file, dest, fetches,
                   writes, input_vars>>

\* The dict iterator's check at every step: "dictionary changed size during
\* iteration".
SizeChanged == it.used # -1 /\ Len(image_md5s) # it.used

\* Lines 67-68: one step of the loop over image_md5s.items().  The iterator
\* raises RuntimeError when a download thread has inserted a key since the
\* loop's first step; at the end of the dict the file is closed, log()
\* returns, and the handler goes on to exit(0) (lines 161-162).  tsv_file
\* is what the file holds once the with statement has closed it, which it
\* does on the exception too.
LogNext(h) ==
    /\ Running(h)
    /\ PcOf(h) = "log_iter"
    /\ IF SizeChanged
       THEN /\ SetPc(h, "raised")
            /\ UNCHANGED <<tsv_file, it>>
       ELSE IF it.pos < Len(image_md5s)
       THEN /\ tsv_file' = [tsv_file EXCEPT
                               !.data = @ \o TsvLine(image_md5s[it.pos + 1])]
            /\ it' = [used |-> Len(image_md5s), pos |-> it.pos + 1]
            /\ UNCHANGED <<cpc, hpc>>
       ELSE /\ SetPc(h, IF h THEN "exited" ELSE "returned")
            /\ UNCHANGED <<tsv_file, it>>
    /\ UNCHANGED <<thread_pool, tracker_vars, tasks, image_index, i,
                   image_urls, di, at_signal, url_file, dest, fetches,
                   writes, input_vars>>

log == \E h \in BOOLEAN : LogUrls(h) \/ LogOpen(h) \/ LogNext(h)

\* Lines 37-43: the set of the stripped lines of tried_urls.txt; no file
\* gives the empty set.
get_tried_urls(file) ==
    IF ~file.exists THEN {}
    ELSE LET lines == readlines(file.data)
         IN  {strip(lines[k]) : k \in 1..Len(lines)}

\* Line 50: md5, name = line.strip().split('\t') needs exactly two parts.
Unpacks(line) == Len(split(strip(line), "\t")) = 2

\* Lines 45-54: the dict of the lines of image_md5s.tsv, a later line of a
\* digest replacing an earlier one; no file gives the empty dict.
RECURSIVE DictOfLines(_, _)
DictOfLines(lines, d) ==
    IF lines = <<>> THEN d
    ELSE LET parts == split(strip(Head(lines)), "\t")
         IN  DictOfLines(Tail(lines), SetItem(d, parts[1], parts[2]))

get_image_md5s(file) ==
    IF ~file.exists THEN <<>> ELSE DictOfLines(readlines(file.data), <<>>)

\* Line 50 raises ValueError on a line that does not unpack.
get_image_md5s_raises(file) ==
    /\ file.exists
    /\ \E k \in 1..Len(readlines(file.data)) : ~Unpacks(readlines(file.data)[k])

\* Lines 37-43 called on a tracker: tracker._get_tried_urls()
GetTriedUrls ==
    /\ cpc = "loaded"
    /\ ret' = [exc |-> "none", value |-> get_tried_urls(url_file)]
    /\ UNCHANGED <<provider, threads, limit, run, prev, thread_pool,
                   tracker_vars, tasks, main_vars, file_vars, dest, fetches,
                   writes>>

\* Lines 45-54 called on a tracker: tracker._get_image_md5s()
GetImageMd5s ==
    /\ cpc = "loaded"
    /\ ret' = IF get_image_md5s_raises(tsv_file)
              THEN [exc |-> "ValueError", value |-> {}]
              ELSE [exc |-> "none", value |-> AsMap(get_image_md5s(tsv_file))]
    /\ UNCHANGED <<provider, threads, limit, run, prev, thread_pool,
                   tracker_vars, tasks, main_vars, file_vars, dest, fetches,
                   writes>>

\* What load() does with the class it is bound to: line 59 calls the plain
\* function _get_tried_urls without an instance, which raises TypeError
\* before anything is assigned.
LoadRaises(cls) == "TypeError"

\* Lines 56-60 on a new tracker (lines 31-35): DownloadTracker().load(dir).
\* load is a classmethod, so its `self` is the class.
Load ==
    /\ cpc = "returned"
    /\ hpc = "none"
    /\ tasks = EmptyBag
    /\ prev' = [urls |-> tried_urls, md5s |-> AsMap(image_md5s),
                on_file |-> get_tried_urls(url_file)]
    /\ tried_urls' = {}
    /\ image_md5s' = <<>>
    /\ ret' = [exc |-> LoadRaises("DownloadTracker"), value |-> {}]
    /\ cpc' = "loaded"
    /\ UNCHANGED <<provider, threads, limit, run, thread_pool, tasks,
                   image_index, i, image_urls, di, hpc, it, at_signal,
                   file_vars, dest, fetches, writes>>

\* ------------------------------------------------------------ fetch_images

\* The main thread has left fetch_images: it returned, an exception
\* propagated, or the handler called exit(0) or raised.
MainEnded == cpc \in {"returned", "raised"} \/ hpc \in {"exited", "raised"}

Started == BagCardinality(tasks)

\* Lines 155-157, 31-35: a new semaphore, image_index = 0 and a new
\* DownloadTracker, which is empty: nothing loads it from the files.
Started0 ==
    /\ thread_pool = threads
    /\ tried_urls = {}
    /\ image_md5s = <<>>
    /\ tasks = EmptyBag
    /\ image_index = 0
    /\ i = -1
    /\ image_urls = <<>>
    /\ di = 0
    /\ cpc = "while"
    /\ hpc = "none"
    /\ it = [used |-> -1, pos |-> 0]
    /\ fetches = [u \in URLS |-> 0]
    /\ writes = [h \in {md5_hexdigest(b) : b \in Images} |-> 0]
    /\ at_signal = [delivered |-> FALSE, urls |-> {}, md5s |-> {}, cpc |-> "while"]

\* The same in a process that follows another.
NewProcess ==
    /\ thread_pool' = threads
    /\ tried_urls' = {}
    /\ image_md5s' = <<>>
    /\ tasks' = EmptyBag
    /\ image_index' = 0
    /\ i' = -1
    /\ image_urls' = <<>>
    /\ di' = 0
    /\ cpc' = "while"
    /\ hpc' = "none"
    /\ it' = [used |-> -1, pos |-> 0]
    /\ fetches' = [u \in URLS |-> 0]
    /\ writes' = [h \in {md5_hexdigest(b) : b \in Images} |-> 0]
    /\ at_signal' = [delivered |-> FALSE, urls |-> {}, md5s |-> {}, cpc |-> "while"]

\* Line 169: while image_index < limit
While ==
    /\ hpc = "none"
    /\ cpc = "while"
    /\ cpc' = IF image_index < limit THEN "get" ELSE "log_urls"
    /\ UNCHANGED <<thread_pool, tracker_vars, tasks, image_index, i,
                   image_urls, di, hpc, it, at_signal, file_vars, dest,
                   fetches, writes, input_vars>>

\* The pages the provider may return: the lists of at most n URLs, each
\* list in one order (the threads of a page are started one after the
\* other and run in any order).  A page never holds more results than the
\* provider has left: provider.count less the threads started.
RECURSIVE Lists(_, _)
Lists(urls, n) ==
    IF n = 0 THEN {<<>>}
    ELSE Lists(urls, n - 1) \cup
         {Append(l, u) : l \in {x \in Lists(urls, n - 1) : Len(x) = n - 1},
                         u \in urls}

Pages(urls, n) ==
    {l \in Lists(urls, n) : \A k \in 1..(Len(l) - 1) : ~StrLess(l[k + 1], l[k])}

\* No page has had a URL yet: i is unbound, and line 182 raises after an
\* empty page, so the page now requested is the first.
FirstRequest == i = -1

\* What the provider's answer keeps to: every page has at least
\* provider.least URLs, and the first page has provider.first different
\* URLs when that is not 0.
Answers(page) ==
    /\ Len(page) >= provider.least
    /\ (FirstRequest /\ provider.first > 0) =>
          /\ Len(page) = provider.first
          /\ Cardinality({page[k] : k \in 1..Len(page)}) = Len(page)

\* Lines 170-172: get_image_urls returns the URLs of one page.
GetImageUrls ==
    /\ hpc = "none"
    /\ cpc = "get"
    /\ \E page \in Pages(provider.urls, provider.count - Started) :
          /\ Answers(page)
          /\ image_urls' = page
          /\ di' = 0
          /\ cpc' = "dispatch"
    /\ UNCHANGED <<thread_pool, tracker_vars, tasks, image_index, i, hpc, it,
                   at_signal, file_vars, dest, fetches, writes, input_vars>>

\* Lines 141-143: the request for the page fails; the exception leaves
\* get_image_urls and fetch_images.
GetImageUrlsFails ==
    /\ hpc = "none"
    /\ cpc = "get"
    /\ cpc' = "raised"
    /\ UNCHANGED <<thread_pool, tracker_vars, tasks, image_index, i,
                   image_urls, di, hpc, it, at_signal, file_vars, dest,
                   fetches, writes, input_vars>>

\* Lines 173-181: one round of the for loop binds i and starts a thread.
Dispatch ==
    /\ hpc = "none"
    /\ cpc = "dispatch"
    /\ di < Len(image_urls)
    /\ i' = di
    /\ di' = di + 1
    /\ tasks' = tasks (+) SetToBag({NewTask(image_urls[di + 1])})
    /\ UNCHANGED <<thread_pool, tracker_vars, image_index, image_urls, cpc,
                   hpc, it, at_signal, file_vars, dest, fetches, writes,
                   input_vars>>

\* What line 182 adds to image_index.
Step(n, last) == last

\* Lines 182-183: image_index += i, then the pause.  i is unbound when no
\* page has had a URL yet.
Advance ==
    /\ hpc = "none"
    /\ cpc = "dispatch"
    /\ di = Len(image_urls)
    /\ IF i = -1
       THEN /\ cpc' = "raised"
            /\ UNCHANGED image_index
       ELSE /\ image_index' = image_index + Step(Len(image_urls), i)
            /\ cpc' = "while"
    /\ image_urls' = <<>>
    /\ di' = 0
    /\ UNCHANGED <<thread_pool, tracker_vars, tasks, i, hpc, it, at_signal,
                   file_vars, dest, fetches, writes, input_vars>>

\* SIGINT while fetch_images runs: interupt_handler starts on the main
\* thread (lines 159-160).
Interrupt ==
    /\ hpc = "none"
    /\ cpc \notin {"returned", "raised"}
    /\ hpc' = "log_urls"
    /\ at_signal' = [delivered |-> TRUE, urls |-> tried_urls,
                     md5s |-> Keys(image_md5s), cpc |-> cpc]
    /\ UNCHANGED <<thread_pool, tracker_vars, tasks, image_index, i,
                   image_urls, di, cpc, it, file_vars, dest, fetches, writes,
                   input_vars>>

\* The steps of the coordinator in which no page request fails.
fetch_images ==
    \/ While
    \/ GetImageUrls
    \/ Dispatch
    \/ Advance

\* The process has ended: the main thread has left fetch_images and every
\* download thread has finished.
ProcessEnded == MainEnded /\ \A t \in BagToSet(tasks) : t.pc = "done"

\* The same query is run again in a new process (lines 212-216, 155-157).
Restart ==
    /\ ProcessEnded
    /\ run < MaxRuns
    /\ run' = run + 1
    /\ prev' = [urls |-> tried_urls, md5s |-> AsMap(image_md5s),
                on_file |-> get_tried_urls(url_file)]
    /\ NewProcess
    /\ UNCHANGED <<provider, threads, limit, file_vars, dest, ret>>

\* ---------------------------------------------------------- specifications

Init ==
    /\ provider = [urls |-> {U1, U2}, count |-> MaxTasks, first |-> 0,
                   least |-> 0]
    /\ threads \in 1..MaxThreads
    /\ limit \in 1..MaxLimit
    /\ run = 1
    /\ prev = NoTracker
    /\ ret = NoCall
    /\ url_file = NoFile
    /\ tsv_file = NoFile
    /\ dest = {}
    /\ Started0

\* One run of fetch_images to its end, with every failure of the network
\* and the disk.
Next ==
    \/ fetch_images
    \/ GetImageUrlsFails
    \/ download_steps
    \/ download_failures
    \/ log

Spec == Init /\ [][Next]_vars

\* A run that SIGINT interrupts, of a query with SignalTasks results,
\* in which nothing else fails.
InitSignal ==
    /\ provider = [urls |-> URLS, count |-> SignalTasks, first |-> 0,
                   least |-> 0]
    /\ threads = 1
    /\ limit = 1
    /\ run = 1
    /\ prev = NoTracker
    /\ ret = NoCall
    /\ url_file = NoFile
    /\ tsv_file = NoFile
    /\ dest = {}
    /\ Started0

NextSignal ==
    \/ fetch_images
    \/ download_steps
    \/ log
    \/ Interrupt

SpecSignal == InitSignal /\ [][NextSignal]_vars

\* The same query run in MaxRuns processes, one after the other.
NextRuns ==
    \/ fetch_images
    \/ download_steps
    \/ log
    \/ Restart

SpecRuns == Init /\ [][NextRuns]_vars

\* A run of a query with PageTasks results whose first page has `limit`
\* different URLs, in which nothing fails.
InitPage ==
    /\ limit \in 1..MaxLimit
    /\ provider = [urls |-> URLS, count |-> PageTasks, first |-> limit,
                   least |-> 0]
    /\ threads \in 1..MaxThreads
    /\ run = 1
    /\ prev = NoTracker
    /\ ret = NoCall
    /\ url_file = NoFile
    /\ tsv_file = NoFile
    /\ dest = {}
    /\ Started0

NextPage ==
    \/ fetch_images
    \/ download_steps
    \/ log

SpecPage == InitPage /\ [][NextPage]_vars

\* A run followed for ever, of a query for which every page has a URL and
\* in which nothing fails.  The threads that have ended are no more, and
\* at most LiveTasks threads exist at once.
InitLive ==
    /\ provider = [urls |-> {U1, U2}, count |-> LiveTasks, first |-> 0,
                   least |-> 1]
    /\ threads \in 1..MaxThreads
    /\ limit \in 1..MaxLimit
    /\ run = 1
    /\ prev = NoTracker
    /\ ret = NoCall
    /\ url_file = NoFile
    /\ tsv_file = NoFile
    /\ dest = {}
    /\ Started0

NextLive ==
    \/ fetch_images
    \/ download_steps
    \/ log
    \/ thread_exit

\* The main thread and the download threads are threads of the operating
\* system: each one that can take a step does take one.
SpecLive ==
    /\ InitLive
    /\ [][NextLive]_vars
    /\ WF_vars(fetch_images)
    /\ WF_vars(log)
    /\ WF_vars(download_steps)
    /\ WF_vars(thread_exit)

\* The trackers a run can end with: URLs tried, and digests recorded under
\* the file names of tried URLs.
RECURSIVE Dicts(_)
Dicts(n) ==
    IF n = 0 THEN {<<>>}
    ELSE Dicts(n - 1) \cup
         {Append(d, <<md5_hexdigest(b), Filename(u)>>) :
             d \in {x \in Dicts(n - 1) : Len(x) = n - 1}, b \in Images, u \in URLS}

Trackers ==
    {tr \in [urls : SUBSET URLS, md5s : Dicts(MaxDict)] :
        /\ Cardinality(Keys(tr.md5s)) = Len(tr.md5s)
        /\ \A k \in 1..Len(tr.md5s) :
              \E u \in tr.urls : tr.md5s[k][2] = Filename(u)}

\* A tracker is persisted with log(), then a new tracker is loaded from the
\* files.
InitTracker ==
    /\ provider = [urls |-> {}, count |-> 0, first |-> 0, least |-> 0]
    /\ threads = 1
    /\ limit = 0
    /\ run = 1
    /\ prev = NoTracker
    /\ ret = NoCall
    /\ url_file = NoFile
    /\ tsv_file = NoFile
    /\ dest = {}
    /\ thread_pool = threads
    /\ \E tr \in Trackers : tried_urls = tr.urls /\ image_md5s = tr.md5s
    /\ tasks = EmptyBag
    /\ image_index = 0
    /\ i = -1
    /\ image_urls = <<>>
    /\ di = 0
    /\ cpc = "log_urls"
    /\ hpc = "none"
    /\ it = [used |-> -1, pos |-> 0]
    /\ fetches = [u \in URLS |-> 0]
    /\ writes = [h \in {md5_hexdigest(b) : b \in Images} |-> 0]
    /\ at_signal = [delivered |-> FALSE, urls |-> {}, md5s |-> {}, cpc |-> "while"]

NextTracker ==
    \/ LogUrls(FALSE)
    \/ LogOpen(FALSE)
    \/ LogNext(FALSE)
    \/ Load
    \/ GetTriedUrls
    \/ GetImageMd5s

SpecTracker == InitTracker /\ [][NextTracker]_vars

\* ------------------------------------------------------------------ claims

Finished == {t \in BagToSet(tasks) : t.pc = "done"}
Outcomes == {t.outcome : t \in Finished}
AllFinished == BagToSet(tasks) = Finished

\* C1: with a semaphore of `threads` slots, the threads that are between
\* the start and the end of their network fetch are never more than
\* `threads`.
C1_ConcurrencyCap == NumTasks({"fetching"}) <= threads

\* C1 witness: every slot is taken by a thread that is fetching while
\* another thread waits in acquire().
C1_GateFull ==
    /\ NumTasks({"fetching"}) = threads
    /\ NumTasks({"acquire"}) >= 1

\* C2: no URL is fetched over the network more than once in a run, for
\* every interleaving of the threads, several threads of one URL included.
C2_FetchedAtMostOnce == \A u \in URLS : fetches[u] <= 1

\* C3: the image file of a digest is written at most once, for every
\* interleaving of the threads (stated for the runs in which no URL is
\* fetched twice, so that the bodies come from different URLs).
C3_WrittenAtMostOnce ==
    C2_FetchedAtMostOnce => \A h \in DOMAIN writes : writes[h] <= 1

\* C4: downloads one after the other (one slot) of different URLs whose
\* bodies have the same bytes: the later one ends normally as a skipped
\* duplicate, with no exception, and writes nothing.
C4_DuplicateSkipped ==
    (threads = 1 /\ C2_FetchedAtMostOnce) =>
        /\ "raise_NameError" \notin Outcomes
        /\ \A h \in DOMAIN writes : writes[h] <= 1

\* C5: a second run of the query, after a first run that persisted its
\* tracker, fetches over the network no URL that the first run ended with
\* in tried_urls and left in tried_urls.txt.
C5_NoRefetchAcrossRuns ==
    run = 2 => \A u \in prev.urls \cap prev.on_file : fetches[u] = 0

\* C6: a thread that acquires a slot releases it exactly once on every
\* path, a thread that returns because its URL was tried neither acquires
\* nor releases: the free slots and the threads holding one always add up
\* to `threads`, no release is refused, and when every thread has finished
\* all slots are free.
C6_SlotsBalanced ==
    /\ thread_pool + NumTasks(Holding) = threads
    /\ thread_pool <= threads
    /\ "raise_ValueError" \notin Outcomes
    /\ AllFinished => thread_pool = threads

\* C6 witness: every thread has finished, one by an exception, one by the
\* early return, and all slots are free.
C6_AllReleased ==
    /\ AllFinished
    /\ "raise_AttributeError" \in Outcomes
    /\ "return_tried" \in Outcomes
    /\ thread_pool = threads

\* C7: persisting a tracker with log() and loading a tracker from the files
\* reproduces tried_urls and the image_md5s mapping.
C7_RoundTrip ==
    cpc = "loaded" =>
        /\ tried_urls = prev.urls
        /\ AsMap(image_md5s) = prev.md5s

\* C8: a body that is no image is never hashed, recorded in image_md5s or
\* written to the destination directory, whatever the extension of the URL.
C8_InvalidNeverSaved ==
    /\ \A t \in BagToSet(tasks) : t.image # "none" => t.image \in Images
    /\ Keys(image_md5s) \subseteq {md5_hexdigest(b) : b \in Images}
    /\ \A f \in dest : f[1] \in {md5_hexdigest(b) : b \in Images}

\* C8 witness: the URL with the extension .J was fetched, its body was no
\* image, and neither the tracker's digests nor the directory changed.
C8_InvalidSkipped ==
    /\ AllFinished
    /\ Outcomes = {"return_invalid"}
    /\ tried_urls = {U1}
    /\ image_md5s = <<>>
    /\ dest = {}

\* C9: a network failure while fetching an image (HTTP error, URL error,
\* timeout) never leaves download_image as an exception.
C9_FetchErrorCaught ==
    Outcomes \cap {"raise_AttributeError", "raise_timeout"} = {}

\* The digests on the lines of image_md5s.tsv.
FileHashes(file) ==
    {readlines(file.data)[k][1] : k \in 1..Len(readlines(file.data))}

\* C10: once the handler of SIGINT has ended and the main thread with it,
\* the tracker files hold every URL and every digest the tracker held when
\* the signal was delivered, and the coordinator has not moved since (no
\* page was requested).  Stated for the runs in which no URL is fetched
\* twice.
C10_InterruptPersists ==
    (hpc \in {"exited", "raised"} /\ C2_FetchedAtMostOnce) =>
        /\ at_signal.urls \subseteq get_tried_urls(url_file)
        /\ at_signal.md5s \subseteq FileHashes(tsv_file)
        /\ cpc = at_signal.cpc

\* Every thread started has saved its image, no URL was fetched twice and
\* no digest written twice: every body fetched was a valid image unlike the
\* others, and no fetch failed.
AllSaved ==
    /\ AllFinished
    /\ Outcomes \subseteq {"return_saved"}
    /\ C2_FetchedAtMostOnce
    /\ \A h \in DOMAIN writes : writes[h] <= 1

\* C11: in a run with limit n whose first page has n different URLs, with
\* different valid images and no failure, once fetch_images has returned
\* and the threads have finished there are exactly n files, n entries in
\* tried_urls and n entries in image_md5s.
C11_ExactlyLimitSaved ==
    (provider.first = limit /\ cpc = "returned" /\ AllSaved) =>
        /\ Cardinality(dest) = limit
        /\ Cardinality(tried_urls) = limit
        /\ Len(image_md5s) = limit

\* C12: the threads started in a run, and so the image files it saves, are
\* never more than `limit`, whatever the sizes of the pages.
C12_AtMostLimit ==
    /\ Started <= limit
    /\ Cardinality(dest) <= limit

\* C13: after the threads of a page of n URLs are started the loop goes on
\* with image_index greater by n, for every n >= 0.
C13_AdvanceByPageLength ==
    [][(cpc = "dispatch" /\ cpc' # "dispatch") =>
          (cpc' = "while" /\ image_index' = image_index + Len(image_urls))]_vars

\* The coordinator is in the loop of lines 169-183.
InLoop == cpc \in {"while", "get", "dispatch"}

\* C14: when every page has at least one URL and no page request fails,
\* the coordinator, scheduled fairly, leaves the loop (and goes on to
\* log()), for every limit >= 1.
C14_LeavesLoop == <>(~InLoop)

\* C15: while the provider has returned no URL, the coordinator stays in
\* the loop and keeps requesting pages: the loop ends neither with an
\* error nor otherwise, and log() is not reached.
C15_KeepsRequesting == Started = 0 => InLoop

\* C16: with URLs already attempted, a page request that fails does not
\* end fetch_images by an exception, which would skip the log() of line
\* 184.
C16_PageFailureNotFatal ==
    [][(cpc = "get" /\ tried_urls # {}) => cpc' # "raised"]_vars

\* The file names on the lines of image_md5s.tsv.
FileNames(file) ==
    {LET line == readlines(file.data)[k]
         tab == find(line, "\t", 1)
     IN  strip(SubSeq(line, tab + 1, Len(line))) :
        k \in 1..Len(readlines(file.data))}

\* C17: when log() has returned, with threads still running or not, the
\* two files hold one state of the tracker: in every state of the tracker
\* the file name of a digest is the name of a URL in tried_urls, so every
\* file name in image_md5s.tsv is the name of a URL in tried_urls.txt.
C17_PersistAtomic ==
    cpc = "returned" =>
        FileNames(tsv_file) \subseteq
            {Filename(u) : u \in get_tried_urls(url_file)}

\* C18: the log() at the end of fetch_images never waits for the threads:
\* whenever the coordinator is inside it and no handler has taken over the
\* main thread, it is running, whatever the threads are doing (a step of
\* log() has no other condition than Running and its place in log()).
C18_PersistDoesNotWait ==
    (hpc = "none" /\ cpc \in {"log_urls", "log_open", "log_iter"}) =>
        Running(FALSE)

\* C18 witness: fetch_images has returned without an exception, every
\* thread has finished, and the directory holds an image file whose digest
\* is not in image_md5s.tsv, and of whose URL tried_urls.txt knows nothing.
C18_SavedButNotPersisted ==
    /\ cpc = "returned"
    /\ AllFinished
    /\ \E f \in dest : f[1] \notin FileHashes(tsv_file)
    /\ get_tried_urls(url_file) = {}
    /\ tried_urls # {}

\* C19: a URL whose fetch over the network has started is in tried_urls,
\* and remains there however the download ends.
C19_TriedBeforeFetch ==
    /\ \A u \in URLS : fetches[u] >= 1 => u \in tried_urls
    /\ \A t \in BagToSet(tasks) : t.pc \in Holding => t.url \in tried_urls

\* C19 witness: every thread has finished, one after a fetch that failed
\* and one after a body that was no image, and the URLs fetched are in
\* tried_urls.
C19_TriedAfterFailure ==
    /\ AllFinished
    /\ "raise_timeout" \in Outcomes
    /\ "return_invalid" \in Outcomes
    /\ \E u \in URLS : fetches[u] >= 1
    /\ \A u \in URLS : fetches[u] >= 1 => u \in tried_urls

\* C20: when every thread has finished, every digest in image_md5s has its
\* file in the destination directory, also after a write that failed.
C20_RecordedOnlyIfWritten ==
    AllFinished =>
        \A h \in Keys(image_md5s) : \E f \in dest : f[1] = h

====
